---------------------------- MODULE Spec2Model ----------------------------
(***************************************************************************)
(* Model of scripts/inspect_messageparts.py, the DLR reconciliation report  *)
(* of message-hub: one run of the script against a SQLite store holding the *)
(* Messages and MessageParts tables.  Every statement of the script that    *)
(* prints or queries is one action; `out` is what has been printed so far.  *)
(***************************************************************************)
EXTENDS Integers, Sequences, FiniteSets, TLC

VARIABLES
    dbFile,         \* the file sms_database.db: "absent", "present", "unopenable"
    tables,         \* the tables the database holds
    Messages,       \* rows of table Messages (Id is the primary key)
    MessageParts,   \* rows of table MessageParts, in storage (rowid) order
    pc,             \* the statement the script is at
    conn,           \* "none", "open", "closed"
    message,        \* cursor.fetchone() of the selector: <<>> (None) or <<row>>
    parts,          \* cursor.fetchall() of the part fetch
    i,              \* position of the table loop in parts
    status_counts,  \* cursor.fetchall() of the GROUP BY query
    total,          \* COUNT(*) of the last query
    delivered,      \* SUM(CASE ...) of the last query (None over no rows)
    queries,        \* the statements executed on the cursor, in order
    out             \* the lines printed, in order

vars == <<dbFile, tables, Messages, MessageParts, pc, conn, message, parts, i,
          status_counts, total, delivered, queries, out>>

store == <<dbFile, tables, Messages, MessageParts>>

-----------------------------------------------------------------------------
(* Bounds of the model *)

\* greatest CreatedAt of a Message
MaxTime == 2
\* greatest number of rows of MessageParts
MaxParts == 2
\* greatest number of parts, or of parts not delivered, the aggregation is run
\* on, apart from LargeTotals
MaxTotal == 20
\* greatest number of parts whose statuses are listed in every order
MaxListed == 3

-----------------------------------------------------------------------------
(* Values *)

\* Python's None / SQL NULL in a text column
None == "None"

\* Message identifiers; 0 is the identifier the script falls back to
MsgIds == {0, 1}

\* declared part counts (Messages.MessageParts)
PartCounts == {1, 2}

\* part sequence numbers (MessageParts.PartNumber)
PartNumbers == {1, 2}

Statuses == {None, "Delivered", "Pending"}

ProviderIds == {None, "smpp-1"}

\* ChannelData documents: NULL, empty text, text that is no JSON, JSON that is
\* a list, JSON that is a number, and a JSON object.
DocObject == "{\"ChannelType\":\"SMPP\",\"SmppMessageIds\":[\"a\",\"b\"]}"

ChannelDocs == {None, "", "not json", "[\"a\",\"b\"]", "5", DocObject}

\* One printed line: its text and the values formatted into it.
Line(text, a, b, c, s) == [line |-> text, a |-> a, b |-> b, c |-> c, s |-> s]

Text(text) == Line(text, 0, 0, 0, "")


-----------------------------------------------------------------------------
(* The store the script may find *)

\* The columns of Messages the script's course depends on.  Recipient, Status
\* and ProviderMessageId are printed as they are (a NULL prints as None).
MessageRows(id, docs) ==
    [Id : {id}, MessageParts : PartCounts, CreatedAt : 1..MaxTime,
     ChannelData : docs]

\* All contents of table Messages with the given ids, Id being unique
RECURSIVE MessageTables(_, _)
MessageTables(ids, docs) ==
    IF ids = {} THEN {{}}
    ELSE LET id == CHOOSE x \in ids : TRUE
         IN  {T \cup o : T \in MessageTables(ids \ {id}, docs),
                          o \in {{}} \cup {{r} : r \in MessageRows(id, docs)}}

\* The columns of MessageParts the script's course depends on; the rowid is
\* the position in the table.  DeliveredAt and DeliveryStatus are printed with
\* a placeholder for NULL, TotalParts and ErrorCode are not printed.
PartRows(provs) ==
    [MessageId : MsgIds, PartNumber : PartNumbers,
     ProviderMessageId : provs, Status : Statuses]

\* All contents of table MessageParts of at most n rows
PartTables(n, provs) == UNION {[1..k -> PartRows(provs)] : k \in 0..n}

\* The contents the model runs the script against: every Messages table with
\* at most one MessagePart, and every MessageParts table of up to MaxParts
\* rows with Messages whose channel data is well formed.
Stores ==
    ([M : MessageTables(MsgIds, ChannelDocs), P : PartTables(1, ProviderIds)])
    \cup
    ([M : MessageTables(MsgIds, {DocObject}), P : PartTables(MaxParts, {"smpp-1"})])

-----------------------------------------------------------------------------
(* The queries *)

\* WHERE MessageParts >= 1, the comparison off by one
QualifyingFromOne(msgs) == {m \in msgs : m.MessageParts >= 1}

\* WHERE MessageParts > 1
Qualifying(msgs) == {m \in msgs : m.MessageParts > 1}

\* SELECT ... FROM Messages WHERE MessageParts > 1 ORDER BY CreatedAt DESC
\* LIMIT 1: the rows that may come first in the ordering.  Rows that share the
\* greatest CreatedAt are not ordered by the statement.
SelectorResults(msgs) ==
    {m \in Qualifying(msgs) :
        \A n \in Qualifying(msgs) : n.CreatedAt <= m.CreatedAt}

\* msg_id if message else 0
QueryId(msg) == IF Len(msg) > 0 THEN msg[1].Id ELSE 0

\* rowids of MessageParts mp INNER JOIN Messages m ON mp.MessageId = m.Id
\* WHERE mp.MessageId = id
JoinedParts(id) ==
    {k \in 1..Len(MessageParts) :
        /\ MessageParts[k].MessageId = id
        /\ \E m \in Messages : m.Id = MessageParts[k].MessageId}

FetchedRow(k) ==
    [Id |-> k, PartNumber |-> MessageParts[k].PartNumber,
     ProviderMessageId |-> MessageParts[k].ProviderMessageId,
     Status |-> MessageParts[k].Status]

\* ORDER BY mp.PartNumber: every arrangement of the joined rows that ascends
\* in PartNumber (rows with equal PartNumber in either order)
PartFetchResults(id) ==
    LET ks == JoinedParts(id)
        n == Cardinality(ks)
    IN  {[j \in 1..n |-> FetchedRow(f[j])] :
            f \in {g \in [1..n -> ks] :
                     /\ \A a, b \in 1..n : a # b => g[a] # g[b]
                     /\ \A a, b \in 1..n :
                          a < b => MessageParts[g[a]].PartNumber
                                     <= MessageParts[g[b]].PartNumber}}

\* rowids of MessageParts WHERE MessageId = id (no join)
PartsOf(id) == {k \in 1..Len(MessageParts) : MessageParts[k].MessageId = id}

\* The order in which GROUP BY Status returns its groups (NULL first)
StatusOrder == <<None, "Delivered", "Pending">>

\* COUNT(Status) in place of COUNT(*): rows with a NULL status are not counted
GroupCountNonNull(id, s) ==
    IF s = None THEN 0
    ELSE Cardinality({k \in PartsOf(id) : MessageParts[k].Status = s})

GroupCount(id, s) == Cardinality({k \in PartsOf(id) : MessageParts[k].Status = s})

\* SELECT Status, COUNT(*) FROM MessageParts WHERE MessageId = id GROUP BY Status
StatusCountResult(id) ==
    LET groups == SelectSeq(StatusOrder, LAMBDA s : GroupCount(id, s) > 0)
    IN  [j \in 1..Len(groups) |->
            [Status |-> groups[j], Count |-> GroupCount(id, groups[j])]]

\* COUNT(*)
TotalResult(id) == Cardinality(PartsOf(id))

\* SUM(CASE WHEN Status = 'Delivered' THEN 1 ELSE 0 END): NULL over no rows
DeliveredResult(id) ==
    IF PartsOf(id) = {} THEN None
    ELSE Cardinality({k \in PartsOf(id) : MessageParts[k].Status = "Delivered"})

-----------------------------------------------------------------------------
(* Formatting *)

\* if channel_data: (None and the empty text are false)
Truthy(doc) == doc # None /\ doc # ""

\* json.loads(channel_data): the type of the value parsed, "error" if it raises
JsonLoads(doc) ==
    CASE doc = DocObject -> "object"
      [] doc = "[\"a\",\"b\"]" -> "list"
      [] doc = "5" -> "number"
      [] OTHER -> "error"

\* every parsed JSON value taken to be a dict
HasGetAnyJson(type) == type # "error"

\* data.get(...) exists on a dict only (AttributeError otherwise)
HasGet(type) == type = "object"

\* f"{(delivered / total) * 100:.1f}" in tenths of a percent: the quotient
\* rounded to one decimal, an exact tie going to the even digit.  (For the
\* totals of this model the double (delivered / total) * 100 rounds as the
\* exact quotient does.)
FormatRate(d, t) ==
    LET q == (1000 * d) \div t
        r == (1000 * d) % t
    IN  IF 2 * r > t \/ (2 * r = t /\ q % 2 = 1) THEN q + 1 ELSE q

\* the printed, rounded rate compared in place of success_rate
RateIs100Rounded(d, t) == FormatRate(d, t) = 1000

\* success_rate == 100, success_rate being the double (delivered / total) * 100:
\* delivered / total is 1.0 exactly when delivered = total and below 1.0
\* otherwise
RateIs100(d, t) == d = t

\* f"{prov_id:>12} | {status:>12}" raises TypeError when either is None
FormatFails(row) == row.ProviderMessageId = None \/ row.Status = None

-----------------------------------------------------------------------------
(* The script, statement by statement *)

\* cursor.execute raises: a table of the statement is missing
NoSuchTable(needed) == ~ (needed \subseteq tables)

\* An exception leaves the try block for the handler.
Raise ==
    /\ pc' = "except"

\* conn = sqlite3.connect(db_path); cursor = conn.cursor()
\* connect creates the database file when there is none.
Connect ==
    /\ pc = "connect"
    /\ IF dbFile = "unopenable"
       THEN /\ Raise
            /\ UNCHANGED <<dbFile, conn>>
       ELSE /\ dbFile' = "present"
            /\ conn' = "open"
            /\ pc' = "banner"
    /\ UNCHANGED <<tables, Messages, MessageParts, message, parts, i,
                   status_counts, total, delivered, queries, out>>

\* print("=== Latest Multi-Part Message Analysis ===")
PrintBanner ==
    /\ pc = "banner"
    /\ out' = Append(out, Text("=== Latest Multi-Part Message Analysis ==="))
    /\ pc' = "select"
    /\ UNCHANGED <<store, conn, message, parts, i, status_counts, total,
                   delivered, queries>>

\* cursor.execute(SELECT ... WHERE MessageParts > 1 ORDER BY CreatedAt DESC
\* LIMIT 1); message = cursor.fetchone()
SelectLatest ==
    /\ pc = "select"
    /\ queries' = Append(queries, "select latest")
    /\ \E busy \in BOOLEAN :
         IF busy \/ NoSuchTable({"Messages"})
         THEN /\ Raise
              /\ UNCHANGED message
         ELSE /\ IF SelectorResults(Messages) = {}
                 THEN message' = <<>>
                 ELSE \E m \in SelectorResults(Messages) : message' = <<m>>
              /\ pc' = "summary"
    /\ UNCHANGED <<store, conn, parts, i, status_counts, total, delivered, out>>

\* if message: the five summary lines, then the channel data
PrintMessage ==
    /\ pc = "summary"
    /\ IF Len(message) > 0
       THEN /\ out' = out \o
                 << Line("Message ID", message[1].Id, 0, 0, ""),
                    Text("Recipient"),
                    Text("Status"),
                    Line("Parts Count", message[1].MessageParts, 0, 0, ""),
                    Text("Primary Provider ID") >>
            /\ pc' = "channel"
       ELSE /\ out' = out
            /\ pc' = "details"
    /\ UNCHANGED <<store, conn, message, parts, i, status_counts, total,
                   delivered, queries>>

\* if channel_data: try: data = json.loads(channel_data); print(...get...);
\* print(...get...) except: print("Channel Data: (unparseable)")
PrintChannelData ==
    /\ pc = "channel"
    /\ LET channel_data == message[1].ChannelData
       IN  IF Truthy(channel_data)
           THEN IF HasGet(JsonLoads(channel_data))
                THEN out' = out \o << Text("All Provider IDs"), Text("Channel Type") >>
                ELSE out' = Append(out, Text("Channel Data: (unparseable)"))
           ELSE out' = out
    /\ pc' = "details"
    /\ UNCHANGED <<store, conn, message, parts, i, status_counts, total,
                   delivered, queries>>

\* print("\n=== MessageParts Details ===")
PrintDetailsBanner ==
    /\ pc = "details"
    /\ out' = Append(out, Text("=== MessageParts Details ==="))
    /\ pc' = "fetch"
    /\ UNCHANGED <<store, conn, message, parts, i, status_counts, total,
                   delivered, queries>>

\* cursor.execute(SELECT ... FROM MessageParts mp INNER JOIN Messages m ...
\* WHERE mp.MessageId = ? ORDER BY mp.PartNumber, (msg_id if message else 0,))
\* parts = cursor.fetchall()
FetchParts ==
    /\ pc = "fetch"
    /\ queries' = Append(queries, "fetch parts")
    /\ \E busy \in BOOLEAN :
         IF busy \/ NoSuchTable({"Messages", "MessageParts"})
         THEN /\ Raise
              /\ UNCHANGED parts
         ELSE /\ \E rows \in PartFetchResults(QueryId(message)) : parts' = rows
              /\ pc' = "table"
    /\ UNCHANGED <<store, conn, message, i, status_counts, total, delivered, out>>

\* if parts: the column header and the rule
PrintTableHeader ==
    /\ pc = "table"
    /\ IF Len(parts) > 0
       THEN /\ out' = out \o << Text("Part | Provider ID | Status | Delivered At | DLR Status"),
                               Text("-" ) >>
            /\ pc' = "rows"
       ELSE /\ out' = out
            /\ pc' = "summary banner"
    /\ i' = 1
    /\ UNCHANGED <<store, conn, message, parts, status_counts, total,
                   delivered, queries>>

\* for part in parts: print(f"{part_num:>4} | {prov_id:>12} | {status:>12} | ...")
PrintPartRow ==
    /\ pc = "rows"
    /\ IF i > Len(parts)
       THEN /\ pc' = "summary banner"
            /\ UNCHANGED <<out, i>>
       ELSE IF FormatFails(parts[i])
       THEN /\ Raise
            /\ UNCHANGED <<out, i>>
       ELSE /\ out' = Append(out, Line("part row", parts[i].PartNumber, parts[i].Id,
                                       0, parts[i].Status))
            /\ i' = i + 1
            /\ pc' = "rows"
    /\ UNCHANGED <<store, conn, message, parts, status_counts, total,
                   delivered, queries>>

\* print("\n=== DLR Processing Success Summary ===")
PrintSummaryBanner ==
    /\ pc = "summary banner"
    /\ out' = Append(out, Text("=== DLR Processing Success Summary ==="))
    /\ pc' = "count by status"
    /\ UNCHANGED <<store, conn, message, parts, i, status_counts, total,
                   delivered, queries>>

\* cursor.execute(SELECT Status, COUNT(*) ... GROUP BY Status);
\* status_counts = cursor.fetchall()
CountByStatus ==
    /\ pc = "count by status"
    /\ queries' = Append(queries, "count by status")
    /\ \E busy \in BOOLEAN :
         IF busy \/ NoSuchTable({"MessageParts"})
         THEN /\ Raise
              /\ UNCHANGED status_counts
         ELSE /\ status_counts' = StatusCountResult(QueryId(message))
              /\ pc' = "status lines"
    /\ UNCHANGED <<store, conn, message, parts, i, total, delivered, out>>

\* for status, count in status_counts: print(f"  {status}: {count} parts")
PrintStatusCounts ==
    /\ pc = "status lines"
    /\ out' = out \o [j \in 1..Len(status_counts) |->
                        Line("status count", status_counts[j].Count, 0, 0,
                             status_counts[j].Status)]
    /\ pc' = "count total"
    /\ UNCHANGED <<store, conn, message, parts, i, status_counts, total,
                   delivered, queries>>

\* cursor.execute(SELECT COUNT(*), SUM(CASE WHEN Status = 'Delivered' ...));
\* total, delivered = cursor.fetchone()
CountTotal ==
    /\ pc = "count total"
    /\ queries' = Append(queries, "count total")
    /\ \E busy \in BOOLEAN :
         IF busy \/ NoSuchTable({"MessageParts"})
         THEN /\ Raise
              /\ UNCHANGED <<total, delivered>>
         ELSE /\ total' = TotalResult(QueryId(message))
              /\ delivered' = DeliveredResult(QueryId(message))
              /\ pc' = "rate"
    /\ UNCHANGED <<store, conn, message, parts, i, status_counts, out>>

\* The classification line: PERFECT when success_rate == 100
Classification(d, t) ==
    IF RateIs100(d, t) THEN Text("PERFECT")
    ELSE Line("PARTIAL", t - d, 0, 0, "")

\* if total > 0: the success rate line and the classification line
PrintSuccessRate ==
    /\ pc = "rate"
    /\ IF total > 0
       THEN out' = out \o
                << Line("DLR Success Rate", delivered, total,
                        FormatRate(delivered, total), ""),
                   Classification(delivered, total) >>
       ELSE out' = out
    /\ pc' = "close"
    /\ UNCHANGED <<store, conn, message, parts, i, status_counts, total,
                   delivered, queries>>

\* conn.close(), the last statement of the try block
Close ==
    /\ pc = "close"
    /\ conn' = "closed"
    /\ pc' = "done"
    /\ UNCHANGED <<store, message, parts, i, status_counts, total, delivered,
                   queries, out>>

\* except Exception as e: print(f"Error: {e}")
Except ==
    /\ pc = "except"
    /\ out' = Append(out, Text("Error"))
    /\ pc' = "done"
    /\ UNCHANGED <<store, conn, message, parts, i, status_counts, total,
                   delivered, queries>>

-----------------------------------------------------------------------------
(* A run of the script against any store within the bounds *)

Init ==
    /\ dbFile \in {"absent", "present", "unopenable"}
    /\ tables \in SUBSET {"Messages", "MessageParts"}
    /\ dbFile # "present" => tables = {}
    /\ \E s \in Stores : Messages = s.M /\ MessageParts = s.P
    /\ "Messages" \notin tables => Messages = {}
    /\ "MessageParts" \notin tables => MessageParts = <<>>
    /\ pc = "connect"
    /\ conn = "none"
    /\ message = <<>>
    /\ parts = <<>>
    /\ i = 1
    /\ status_counts = <<>>
    /\ total = 0
    /\ delivered = 0
    /\ queries = <<>>
    /\ out = <<>>

Next ==
    \/ Connect
    \/ PrintBanner
    \/ SelectLatest
    \/ PrintMessage
    \/ PrintChannelData
    \/ PrintDetailsBanner
    \/ FetchParts
    \/ PrintTableHeader
    \/ PrintPartRow
    \/ PrintSummaryBanner
    \/ CountByStatus
    \/ PrintStatusCounts
    \/ CountTotal
    \/ PrintSuccessRate
    \/ Close
    \/ Except

Spec == Init /\ [][Next]_vars

-----------------------------------------------------------------------------
(* The Status Aggregator on its own: the last query and the success rate,  *)
(* run for one selected message over tables of up to LargeTotals parts      *)

\* part counts at which a partial delivery prints as 100.0
LargeTotals == {2001}

AggMessage ==
    [Id |-> 1, MessageParts |-> 2, CreatedAt |-> 1, ChannelData |-> DocObject]

AggRow(k, status) ==
    [MessageId |-> 1, PartNumber |-> k, ProviderMessageId |-> "smpp-1",
     Status |-> status]

\* t parts of which the first d are delivered, the next n have no status and
\* the rest are pending
BlockTable(t, d, n) ==
    [k \in 1..t |-> AggRow(k, IF k <= d THEN "Delivered"
                              ELSE IF k <= d + n THEN None ELSE "Pending")]

AggTables ==
    {[k \in 1..Len(st) |-> AggRow(k, st[k])] :
        st \in UNION {[1..n -> Statuses] : n \in 0..MaxListed}}
    \cup
    {BlockTable(t, d, n) : t \in (1..MaxTotal) \cup LargeTotals,
                           d \in 0..MaxTotal, n \in 0..1}
    \cup
    {BlockTable(t, t - p, 0) : t \in LargeTotals, p \in 0..MaxTotal}

InitAgg ==
    /\ dbFile = "present"
    /\ tables = {"Messages", "MessageParts"}
    /\ Messages = {AggMessage}
    /\ MessageParts \in AggTables
    /\ pc = "count total"
    /\ conn = "open"
    /\ message = <<AggMessage>>
    /\ parts = <<>>
    /\ i = 1
    /\ status_counts = <<>>
    /\ total = 0
    /\ delivered = 0
    /\ queries = <<>>
    /\ out = <<>>

NextAgg ==
    \/ CountTotal
    \/ PrintSuccessRate
    \/ Close
    \/ Except

SpecAgg == InitAgg /\ [][NextAgg]_vars

-----------------------------------------------------------------------------
(* What a run has printed and where it stands *)

LinesOf(text) == SelectSeq(out, LAMBDA l : l.line = text)

Printed(text) == \E j \in 1..Len(out) : out[j].line = text

RECURSIVE SumOfA(_)
SumOfA(lines) == IF lines = <<>> THEN 0 ELSE Head(lines).a + SumOfA(Tail(lines))

NoMultiPartNotice == "No multi-part message found"

Placeholder == "Channel Data: (unparseable)"

\* The selector query has returned and the script has not failed since
AfterSelect ==
    \/ pc \in {"summary", "channel", "details", "fetch", "table", "rows",
               "summary banner", "count by status", "status lines",
               "count total", "rate", "close"}
    \/ pc = "done" /\ conn = "closed"

\* The success rate step has been passed
AfterRate == pc = "close" \/ (pc = "done" /\ conn = "closed")

\* The run has ended in the error handler
EndedInError == pc = "done" /\ Printed("Error")

-----------------------------------------------------------------------------
(* C1 *)

\* C1: against a store with no Message of declared part count > 1 the selector
\* returns nothing, no query follows the selector query, and the finished
\* report carries the "no multi-part message found" notice.
C1_EmptyResultEndsTheReport ==
    (AfterSelect /\ \A m \in Messages : m.MessageParts <= 1) =>
        /\ message = <<>>
        /\ queries = <<"select latest">>
        /\ pc = "done" => Printed(NoMultiPartNotice)

-----------------------------------------------------------------------------
(* C2 *)

\* C2: once the counting query has returned N >= 0 parts, a success ratio in
\* [0.0, 100.0] is reported; for N = 0 the ratio reported is 0.0 and the
\* classification reported is "partial".
C2_RatioAlwaysReported ==
    AfterRate =>
        /\ Len(LinesOf("DLR Success Rate")) = 1
        /\ LinesOf("DLR Success Rate")[1].c \in 0..1000
        /\ total = 0 => /\ LinesOf("DLR Success Rate")[1].c = 0
                        /\ Printed("PARTIAL")

-----------------------------------------------------------------------------
(* C3 *)

\* The counts the statement defines, over the parts of the selected message
C3_Total == Cardinality({k \in 1..Len(MessageParts) :
                            MessageParts[k].MessageId = message[1].Id})

C3_Delivered == Cardinality({k \in 1..Len(MessageParts) :
                               /\ MessageParts[k].MessageId = message[1].Id
                               /\ MessageParts[k].Status = "Delivered"})

\* The ratio line reports delivered, total and delivered/total as a percentage
\* to one decimal (c, in tenths, within half a tenth of the quotient); the
\* non-delivered count of a partial message is total - delivered; the
\* scenario [Delivered, Pending, Delivered] reads 2/3, 66.7, partial, 1.
C3_RatioLine ==
    /\ total = C3_Total
    /\ delivered = C3_Delivered
    /\ Len(LinesOf("DLR Success Rate")) = 1
    /\ LET rate == LinesOf("DLR Success Rate")[1]
       IN  /\ rate.a = delivered
           /\ rate.b = total
           /\ 10 * rate.c * total - 10000 * delivered <= 5 * total
           /\ 10000 * delivered - 10 * rate.c * total <= 5 * total
    /\ Len(LinesOf("PERFECT")) + Len(LinesOf("PARTIAL")) = 1
    /\ Printed("PARTIAL") => LinesOf("PARTIAL")[1].a = total - delivered
    /\ delivered = total => Printed("PERFECT")
    /\ [k \in 1..Len(MessageParts) |-> MessageParts[k].Status]
         = <<"Delivered", "Pending", "Delivered">>
       => /\ delivered = 2
          /\ total = 3
          /\ LinesOf("DLR Success Rate")[1].c = 667
          /\ LinesOf("PARTIAL") = <<Line("PARTIAL", 1, 0, 0, "")>>

\* C3 as stated: with total > 0 the message is classified "complete" if and
\* only if the reported one-decimal ratio is exactly 100.0.
C3_CompleteIffReported100 ==
    (AfterRate /\ total > 0) =>
        /\ C3_RatioLine
        /\ Printed("PERFECT") <=> LinesOf("DLR Success Rate")[1].c = 1000

\* C3 as amended: with total > 0 the message is classified "complete" if and
\* only if delivered = total (a complete message is reported as 100.0, and so
\* may be a partial one), otherwise "partial" with total - delivered.
C3_CompleteIffAllDelivered ==
    (AfterRate /\ total > 0) =>
        /\ C3_RatioLine
        /\ Printed("PERFECT") <=> delivered = total
        /\ Printed("PERFECT") => LinesOf("DLR Success Rate")[1].c = 1000

\* A partial message of 2001 parts has been reported as 100.0 and "partial"
C3_Witness ==
    /\ pc = "close"
    /\ total = 2001
    /\ delivered = 2000
    /\ LinesOf("DLR Success Rate")[1].c = 1000
    /\ LinesOf("PARTIAL") = <<Line("PARTIAL", 1, 0, 0, "")>>

-----------------------------------------------------------------------------
(* C4 *)

\* C4 as stated: the channel metadata step never raises, and for every
\* document that is not a key-value document (NULL, empty, not JSON, a JSON
\* list or number) it prints the placeholder and neither channel line.
C4_PlaceholderForEveryOtherDocument ==
    [][pc = "channel" =>
        /\ pc' = "details"
        /\ out' = out \o
             (IF message[1].ChannelData = DocObject
              THEN << Text("All Provider IDs"), Text("Channel Type") >>
              ELSE << Text(Placeholder) >>)]_vars

\* C4 as amended: the channel metadata step never raises; a document that is
\* present and not empty but is no key-value document prints the placeholder
\* and neither channel line; a NULL or empty document prints nothing at all;
\* a key-value document prints the two channel lines.
C4_PlaceholderForUnreadableDocument ==
    [][pc = "channel" =>
        /\ pc' = "details"
        /\ out' = out \o
             (IF message[1].ChannelData = DocObject
              THEN << Text("All Provider IDs"), Text("Channel Type") >>
              ELSE IF message[1].ChannelData \in {None, ""}
              THEN << >>
              ELSE << Text(Placeholder) >>)]_vars

\* A message whose channel data is the JSON number 5 has been summarised with
\* the placeholder, and the report has gone on to its last line
C4_Witness ==
    /\ pc = "done"
    /\ conn = "closed"
    /\ Len(message) = 1
    /\ message[1].ChannelData = "5"
    /\ Printed(Placeholder)
    /\ ~ Printed("Channel Type")
    /\ Printed("DLR Success Rate")

-----------------------------------------------------------------------------
(* C5 *)

\* C5: a run that ends with the error message has printed nothing else.
C5_AllOrNothing == EndedInError => out = << Text("Error") >>

-----------------------------------------------------------------------------
(* C6 *)

\* C6: in every terminated run that opened the connection, the connection has
\* been closed.
C6_ConnectionReleased == (pc = "done" /\ conn # "none") => conn = "closed"

-----------------------------------------------------------------------------
(* C7 *)

\* C7: no step of a run changes the set of existing files or the rows of
\* Messages and MessageParts.
C7_StoreUnchanged == [][store' = store]_vars

-----------------------------------------------------------------------------
(* C8 *)

\* The parts the counting queries of this run are about
C8_Counted == {k \in 1..Len(MessageParts) :
                 MessageParts[k].MessageId = (IF message = <<>> THEN 0
                                              ELSE message[1].Id)}

\* C8: the per-status counts printed sum to the total printed by the same run;
\* no status is printed twice, and the count printed for a status (NULL
\* among them) is the number of parts holding it, so that each part is
\* counted once.
C8_StatusCountsSumToTotal ==
    LET counts == LinesOf("status count")
        rates == LinesOf("DLR Success Rate")
    IN  /\ \A j \in 1..Len(rates) : SumOfA(counts) = rates[j].b
        /\ \A j, k \in 1..Len(counts) : j # k => counts[j].s # counts[k].s
        /\ AfterRate =>
             /\ SumOfA(counts) = Cardinality(C8_Counted)
             /\ \A p \in C8_Counted :
                  \E j \in 1..Len(counts) :
                     /\ counts[j].s = MessageParts[p].Status
                     /\ counts[j].a =
                          Cardinality({q \in C8_Counted :
                             MessageParts[q].Status = MessageParts[p].Status})

\* A run has printed the counts of two statuses and the total
C8_Witness ==
    /\ Len(LinesOf("status count")) >= 2
    /\ Len(LinesOf("DLR Success Rate")) = 1
    /\ Len(message) = 1

-----------------------------------------------------------------------------
(* C9 *)

\* The Messages of declared part count > 1 and those of them created last
C9_MultiPart == {m \in Messages : m.MessageParts > 1}

C9_Latest == {m \in C9_MultiPart : \A n \in C9_MultiPart : n.CreatedAt <= m.CreatedAt}

\* The selector has returned a multi-part Message created no earlier than any
\* other (nothing when there is none)
C9_GreatestMultiPart ==
    IF C9_MultiPart = {} THEN message = <<>>
    ELSE /\ Len(message) = 1
         /\ message[1] \in C9_Latest

\* C9 as stated: the selector returns a multi-part Message of greatest creation
\* timestamp and the store determines which, also when several share it: it
\* is the only row the statement can return.
C9_SelectorDetermined ==
    AfterSelect =>
        /\ C9_GreatestMultiPart
        /\ C9_MultiPart # {} => SelectorResults(Messages) = {message[1]}

\* C9 as amended: the selector returns a multi-part Message of greatest
\* creation timestamp; the store determines which when only one Message has
\* that timestamp.
C9_SelectorDeterminedWithoutTies ==
    AfterSelect =>
        /\ C9_GreatestMultiPart
        /\ Cardinality(C9_Latest) = 1 => SelectorResults(Messages) = {message[1]}

\* The later of two multi-part Messages has been selected
C9_Witness ==
    /\ pc = "summary"
    /\ Len(message) = 1
    /\ \E n \in Messages : n.MessageParts > 1 /\ n.CreatedAt < message[1].CreatedAt

-----------------------------------------------------------------------------
(* C10 *)

\* C10: when a run that printed the part table of the selected message has
\* ended, the table holds one row for each MessagePart of that message, none
\* of another message, in ascending part sequence number.
C10_PartTableComplete ==
    (pc = "done" /\ Len(message) = 1 /\ Printed("-")) =>
        LET rows == LinesOf("part row")
            owned == {k \in 1..Len(MessageParts) :
                        MessageParts[k].MessageId = message[1].Id}
        IN  /\ {rows[j].b : j \in 1..Len(rows)} = owned
            /\ Len(rows) = Cardinality(owned)
            /\ \A j \in 1..Len(rows) :
                 rows[j].a = MessageParts[rows[j].b].PartNumber
            /\ \A j, k \in 1..Len(rows) : j < k => rows[j].a <= rows[k].a

=============================================================================
